---- MODULE Spec2Model ----
(***************************************************************************)
(* Content lifecycle of @ui5/fs Resource (src/lib/Resource.js).             *)
(*                                                                         *)
(* A nullable field of the class is a sequence of length 0 (null or        *)
(* undefined) or 1 (the value).  Bytes and code points are naturals, a     *)
(* Buffer or a string is a sequence of them, and a readable stream is the  *)
(* sequence of chunks (Buffers) it emits before it ends.  A stream factory *)
(* is identified with the chunks of the streams it returns.                *)
(*                                                                         *)
(* Every stream handed to a Resource is a fresh one; a stream emits its    *)
(* chunks, then "end", and may emit "error" instead at any point, after    *)
(* which it emits nothing.  A stream that never ends is a behaviour in     *)
(* which its events never happen.  Name and stat info play no part in the  *)
(* content lifecycle and are not state here; the path of a constructed     *)
(* Resource is "/a".  A project is identified with its name.               *)
(***************************************************************************)
EXTENDS Integers, Sequences, FiniteSets, TLC

\* ----------------------------------------------------------------- bounds
MaxChunks == 2     \* "data" events a stream emits before "end"
MaxWaiters == 2    \* calls awaiting a promise at the same time
MaxCollections == 1   \* collection names pushed to one instance

\* Instance 1 is the Resource the caller constructs, instance 2 a clone of it
\* that the caller keeps and goes on to use
ResIds == {1, 2}

\* ------------------------------------------------------------ value model
NULL == <<>>
Some(x) == <<x>>
IsSet(o) == o # NULL
Val(o) == o[1]

\* Buffer.from(string, "utf8") for strings over code points below U+0800
RECURSIVE Utf8Encode(_)
Utf8Encode(s) ==
    IF s = <<>> THEN <<>>
    ELSE LET c == Head(s)
         IN (IF c < 128 THEN <<c>>
             ELSE <<192 + (c \div 64), 128 + (c % 64)>>) \o Utf8Encode(Tail(s))

\* buffer.toString(): UTF-8 decoding of one- and two-byte sequences; a byte
\* that starts no well-formed sequence decodes to U+FFFD (65533)
RECURSIVE Utf8Decode(_)
Utf8Decode(b) ==
    IF b = <<>> THEN <<>>
    ELSE LET b1 == Head(b)
         IN IF b1 < 128 THEN <<b1>> \o Utf8Decode(Tail(b))
            ELSE IF /\ b1 >= 194 /\ b1 < 224 /\ Len(b) >= 2
                    /\ b[2] >= 128 /\ b[2] < 192
                 THEN <<(b1 - 192) * 64 + (b[2] - 128)>> \o Utf8Decode(Tail(Tail(b)))
                 ELSE <<65533>> \o Utf8Decode(Tail(b))

\* Buffer.concat(buffers)
RECURSIVE BufferConcat(_)
BufferConcat(buffers) ==
    IF buffers = <<>> THEN <<>> ELSE Head(buffers) \o BufferConcat(Tail(buffers))

\* ------------------------------------------------------------------ inputs
\* The streams of the model emit the bytes of "e acute" in turn, one per chunk,
\* and differ in the number of chunks they emit before they end
ChunkAt(i) == IF i % 2 = 1 THEN <<195>> ELSE <<169>>

Streams == {[i \in 1..n |-> ChunkAt(i)] : n \in 0..MaxChunks}
Buffers == {<<65>>}
Strings == {<<>>, <<233>>}
\* path: missing, "" and "/a"
Paths == {NULL, Some(<<>>), Some(<<47, 97>>)}

\* ------------------------------------------------------------------- state
VARIABLES
    res,             \* the Resource instances: their private fields
    flow,            \* per instance, the stream _getBufferFromStream listens on
    sourceModified,  \* source.modified of the one source handle the instances share
    waiters,         \* per instance and call, the calls awaiting its buffering promise
    ready,           \* clone() calls whose options are complete: queued continuations
    settled,         \* outcomes the last step delivered to awaiting calls
    last             \* the last call or event and what it returned or threw

vars == <<res, flow, sourceModified, waiters, ready, settled, last>>

\* An instance slot before its constructor has run
NoResource ==
    [exists |-> FALSE, buffer |-> NULL, stream |-> NULL, createStream |-> NULL,
     contentDrained |-> FALSE, streamDrained |-> FALSE, buffering |-> "none",
     source |-> FALSE, project |-> NULL, collections |-> <<>>]

\* The calls that may await the buffering promise
Ops == {"getBuffer", "getString", "getSize", "clone"}

NoWaiters == [op \in Ops |-> 0]

\* No stream has listeners of _getBufferFromStream attached
NoFlow == [live |-> FALSE, todo |-> <<>>, buffers |-> <<>>]

\* A call or event: its argument, its outcome ("ok", "pending" or the error),
\* and the bytes or text, the size or the stream it returned
Ret(op, r, arg, out, val, size, strm) ==
    [op |-> op, res |-> r, arg |-> arg, out |-> out, val |-> val, size |-> size,
     strm |-> strm, made |-> NULL]

Fail(op, r, arg, err) == Ret(op, r, arg, err, <<>>, -1, NULL)

Done(op, r, arg) == Ret(op, r, arg, "ok", <<>>, -1, NULL)

\* ------------------------------------------------------ content mutation
\* setBuffer that leaves the drained flags as they are
SetBufferKeepsDrained(rec, buffer) ==
    [rec EXCEPT !.createStream = NULL, !.stream = NULL, !.buffer = Some(buffer)]

\* setBuffer, lines 132-139: the fields it assigns
SetBufferFields(rec, buffer) ==
    [rec EXCEPT !.createStream = NULL, !.stream = NULL, !.buffer = Some(buffer),
                !.contentDrained = FALSE, !.streamDrained = FALSE]

\* setStream that leaves the buffer in place
SetStreamKeepsBuffer(rec, stream) ==
    [rec EXCEPT !.stream = Some(stream), !.createStream = NULL,
                !.contentDrained = FALSE, !.streamDrained = FALSE]

\* setStream, lines 218-230, called with a stream instance
SetStreamFields(rec, stream) ==
    [rec EXCEPT !.buffer = NULL, !.stream = Some(stream), !.createStream = NULL,
                !.contentDrained = FALSE, !.streamDrained = FALSE]

\* setStream, lines 218-230, called with a function
SetFactoryFields(rec, createStream) ==
    [rec EXCEPT !.buffer = NULL, !.createStream = Some(createStream), !.stream = NULL,
                !.contentDrained = FALSE, !.streamDrained = FALSE]

\* setBuffer and setStream, first statement: source.modified after the call
MarkModified(rec, modified) ==
    IF rec.source /\ ~modified THEN TRUE ELSE modified

\* ------------------------------------------------------------ constructor
\* a string parameter is truthy when it is given and not empty
Truthy(o) == IsSet(o) /\ Val(o) # <<>>

\* Buffers, streams and functions are objects: truthy whatever they hold
Given(o) == IsSet(o)

\* the pairwise test without the pair of string and stream
ContentConflictMissingPair(p) ==
    \/ Given(p.buffer) /\ Given(p.createStream)
    \/ Given(p.buffer) /\ Truthy(p.string)
    \/ Truthy(p.string) /\ Given(p.createStream)
    \/ Given(p.buffer) /\ Given(p.stream)
    \/ Given(p.createStream) /\ Given(p.stream)

\* line 49-50: the pairwise test of the content parameters
ContentConflict(p) ==
    \/ Given(p.buffer) /\ Given(p.createStream)
    \/ Given(p.buffer) /\ Truthy(p.string)
    \/ Truthy(p.string) /\ Given(p.createStream)
    \/ Given(p.buffer) /\ Given(p.stream)
    \/ Truthy(p.string) /\ Given(p.stream)
    \/ Given(p.createStream) /\ Given(p.stream)

\* lines 83-91: the content the new instance starts with
InitialContent(p, rec) ==
    IF Given(p.createStream) THEN [rec EXCEPT !.createStream = p.createStream]
    ELSE IF Given(p.stream) THEN [rec EXCEPT !.stream = p.stream]
    ELSE IF Given(p.buffer) THEN SetBufferFields(rec, Val(p.buffer))
    ELSE IF IsSet(p.string) THEN SetBufferFields(rec, Utf8Encode(Val(p.string)))
    ELSE rec

\* lines 59-62 and 87-91: source.modified once the constructor returns
InitialModified(p, modified) ==
    LET reset == IF p.source THEN FALSE ELSE modified
        rec == [NoResource EXCEPT !.source = p.source]
    IN IF ~Given(p.createStream) /\ ~Given(p.stream) /\ (Given(p.buffer) \/ IsSet(p.string))
       THEN MarkModified(rec, reset)
       ELSE reset

\* new Resource(p) with source.modified = modified before the call
Constructor(p, modified) ==
    IF ~Truthy(p.path)
    THEN [err |-> "MissingPath", rec |-> NoResource, modified |-> modified]
    ELSE IF ContentConflict(p)
    THEN [err |-> "Conflict", rec |-> NoResource, modified |-> modified]
    ELSE [err |-> "",
          rec |-> InitialContent(p, [NoResource EXCEPT !.exists = TRUE, !.source = p.source,
                                                       !.project = p.project]),
          modified |-> InitialModified(p, modified)]

\* The parameters of the constructions that study the content; the
\* constructions with a project are ParamsOfProject
Params ==
    [path : Paths,
     buffer : {NULL} \cup {Some(b) : b \in Buffers},
     string : {NULL} \cup {Some(s) : s \in Strings},
     createStream : {NULL} \cup {Some(s) : s \in Streams},
     stream : {NULL} \cup {Some(s) : s \in Streams},
     source : BOOLEAN,
     project : {NULL}]

Init ==
    /\ res = [r \in ResIds |-> NoResource]
    /\ flow = [r \in ResIds |-> NoFlow]
    /\ sourceModified = FALSE
    /\ waiters = [r \in ResIds |-> NoWaiters]
    /\ ready = <<>>
    /\ settled = <<>>
    /\ last = Done("init", 1, NULL)

\* The caller constructs the first instance
Construct(p) ==
    /\ ~res[1].exists
    /\ LET c == Constructor(p, sourceModified)
       IN /\ res' = [res EXCEPT ![1] = c.rec]
          /\ sourceModified' = c.modified
          /\ last' = IF c.err = "" THEN Done("new", 1, p) ELSE Fail("new", 1, p, c.err)
    /\ settled' = <<>>
    /\ UNCHANGED <<flow, waiters, ready>>

\* ------------------------------------------------------------ _getStream
\* _getStream that flags the stream as drained whichever content it returns
GetStreamInternalAlwaysDrains(rec) ==
    IF rec.streamDrained
    THEN [err |-> "StreamDrained", rec |-> rec, strm |-> NULL]
    ELSE [err |-> "", rec |-> [rec EXCEPT !.streamDrained = TRUE],
          strm |-> IF IsSet(rec.createStream) THEN rec.createStream ELSE rec.stream]

\* lines 392-401: the error thrown ("" when none), the fields afterwards and
\* the stream returned
GetStreamInternal(rec) ==
    IF rec.streamDrained
    THEN [err |-> "StreamDrained", rec |-> rec, strm |-> NULL]
    ELSE IF IsSet(rec.createStream)
    THEN [err |-> "", rec |-> rec, strm |-> rec.createStream]
    ELSE [err |-> "", rec |-> [rec EXCEPT !.streamDrained = TRUE], strm |-> rec.stream]

\* _getBufferFromStream without the test of _buffering: every call pulls
BufferFromStreamAlways(rec, fl) ==
    LET g == GetStreamInternal(rec)
    IN IF g.err # ""
       THEN [rec |-> [g.rec EXCEPT !.buffering = g.err], flow |-> fl, out |-> g.err]
       ELSE [rec |-> [g.rec EXCEPT !.buffering = "pending"],
             flow |-> [live |-> TRUE, todo |-> Val(g.strm), buffers |-> <<>>],
             out |-> "pending"]

\* --------------------------------------------------- _getBufferFromStream
\* lines 409-421: the promise returned is the one in flight, or a new one whose
\* executor pulls the stream and attaches the listeners.  An executor that
\* throws leaves the rejected promise in _buffering.
\* out: "pending", or the error a rejected promise carries
BufferFromStream(rec, fl) ==
    IF rec.buffering # "none"
    THEN [rec |-> rec, flow |-> fl, out |-> rec.buffering]
    ELSE LET g == GetStreamInternal(rec)
         IN IF g.err # ""
            THEN [rec |-> [g.rec EXCEPT !.buffering = g.err], flow |-> fl, out |-> g.err]
            ELSE [rec |-> [g.rec EXCEPT !.buffering = "pending"],
                  flow |-> [live |-> TRUE, todo |-> Val(g.strm), buffers |-> <<>>],
                  out |-> "pending"]

\* the "end" handler without the reset of source.modified
ModifiedAfterEndNoReset(rec, modified) == MarkModified(rec, modified)

\* lines 424-432: source.modified after the "end" handler has called setBuffer
ModifiedAfterEnd(rec, modified) ==
    LET snapshot == modified
        afterSet == MarkModified(rec, modified)
    IN IF rec.source THEN snapshot ELSE afterSet

\* lines 423-433: the fields after the "end" handler
FieldsAfterEnd(rec, buffers) ==
    [SetBufferFields(rec, BufferConcat(buffers)) EXCEPT !.buffering = "none"]

\* lines 419-421: the fields after the "error" handler; reject() settles the
\* promise, which stays in _buffering
FieldsAfterError(rec) ==
    [rec EXCEPT !.buffering = "StreamError"]

\* --------------------------------------------------------------- getBuffer
\* lines 107-120: "" when the buffer is returned at once, "stream" when the
\* call goes on to _getBufferFromStream, or the error thrown
GetBufferPath(rec) ==
    IF rec.contentDrained THEN "ContentDrained"
    ELSE IF IsSet(rec.buffer) THEN ""
    ELSE IF IsSet(rec.createStream) \/ IsSet(rec.stream) THEN "stream"
    ELSE "NoContent"

\* line 286: getSize's test for a resource without content
HasNoContent(rec) ==
    ~IsSet(rec.buffer) /\ ~IsSet(rec.createStream) /\ ~IsSet(rec.stream)

\* What getBuffer, getString (line 154) and getSize (line 290) make of the buffer
Deliver(op, r, buffer) ==
    IF op = "getString" THEN Ret(op, r, NULL, "ok", Utf8Decode(buffer), -1, NULL)
    ELSE IF op = "getSize" THEN Ret(op, r, NULL, "ok", <<>>, Len(buffer), NULL)
    ELSE Ret(op, r, NULL, "ok", buffer, -1, NULL)

Awaiting(r) ==
    waiters[r]["getBuffer"] + waiters[r]["getString"] + waiters[r]["getSize"]
        + waiters[r]["clone"]

\* Calls in progress, against MaxWaiters
InProgress == Awaiting(1) + Awaiting(2) + Len(ready)

\* No continuation of an awaited promise is queued: the event loop is free to
\* run the next stream event
NoMicrotask == ready = <<>>

\* getBuffer(), getString() and getSize() past their own first test
ReadContent(op, r) ==
    LET rec == res[r]
        path == GetBufferPath(rec)
    IN IF path = ""
       THEN /\ last' = Deliver(op, r, Val(rec.buffer))
            /\ UNCHANGED <<res, flow, waiters>>
       ELSE IF path = "stream"
       THEN LET b == BufferFromStream(rec, flow[r])
            IN /\ b.out = "pending" => InProgress < MaxWaiters
               /\ res' = [res EXCEPT ![r] = b.rec]
               /\ flow' = [flow EXCEPT ![r] = b.flow]
               /\ waiters' = IF b.out = "pending"
                             THEN [waiters EXCEPT ![r][op] = @ + 1]
                             ELSE waiters
               /\ last' = Ret(op, r, NULL, b.out, <<>>, -1, NULL)
       ELSE /\ last' = Fail(op, r, NULL, path)
            /\ UNCHANGED <<res, flow, waiters>>

GetBuffer(r) ==
    /\ res[r].exists
    /\ ReadContent("getBuffer", r)
    /\ settled' = <<>>
    /\ UNCHANGED <<sourceModified, ready>>

\* lines 148-155
GetString(r) ==
    /\ res[r].exists
    /\ IF res[r].contentDrained
       THEN /\ last' = Fail("getString", r, NULL, "ContentDrained")
            /\ UNCHANGED <<res, flow, waiters>>
       ELSE ReadContent("getString", r)
    /\ settled' = <<>>
    /\ UNCHANGED <<sourceModified, ready>>

\* lines 284-291
GetSize(r) ==
    /\ res[r].exists
    /\ IF HasNoContent(res[r])
       THEN /\ last' = Ret("getSize", r, NULL, "ok", <<>>, 0, NULL)
            /\ UNCHANGED <<res, flow, waiters>>
       ELSE ReadContent("getSize", r)
    /\ settled' = <<>>
    /\ UNCHANGED <<sourceModified, ready>>

\* --------------------------------------------------------------- getStream
\* lines 178-205: a buffer is wrapped in a PassThrough that emits it
GetStream(r) ==
    /\ res[r].exists
    /\ LET rec == res[r]
       IN IF rec.contentDrained
          THEN /\ last' = Fail("getStream", r, NULL, "ContentDrained")
               /\ UNCHANGED res
          ELSE IF IsSet(rec.buffer)
          THEN /\ res' = [res EXCEPT ![r].contentDrained = TRUE]
               /\ last' = Ret("getStream", r, NULL, "ok", <<>>, -1, Some(<<Val(rec.buffer)>>))
          ELSE IF IsSet(rec.createStream) \/ IsSet(rec.stream)
          THEN LET g == GetStreamInternal(rec)
               IN IF g.err # ""
                  THEN /\ last' = Fail("getStream", r, NULL, g.err)
                       /\ UNCHANGED res
                  ELSE /\ res' = [res EXCEPT ![r] = [g.rec EXCEPT !.contentDrained = TRUE]]
                       /\ last' = Ret("getStream", r, NULL, "ok", <<>>, -1, g.strm)
          ELSE /\ last' = Fail("getStream", r, NULL, "NoContent")
               /\ UNCHANGED res
    /\ settled' = <<>>
    /\ UNCHANGED <<flow, sourceModified, waiters, ready>>

\* ------------------------------------------------------------- the setters
\* lines 128-140
SetBuffer(r, buffer) ==
    /\ res[r].exists
    /\ sourceModified' = MarkModified(res[r], sourceModified)
    /\ res' = [res EXCEPT ![r] = SetBufferFields(@, buffer)]
    /\ last' = Done("setBuffer", r, NULL)
    /\ settled' = <<>>
    /\ UNCHANGED <<flow, waiters, ready>>

\* lines 163-165
SetString(r, string) ==
    /\ res[r].exists
    /\ sourceModified' = MarkModified(res[r], sourceModified)
    /\ res' = [res EXCEPT ![r] = SetBufferFields(@, Utf8Encode(string))]
    /\ last' = Done("setString", r, NULL)
    /\ settled' = <<>>
    /\ UNCHANGED <<flow, waiters, ready>>

\* lines 214-231, with a stream instance
SetStream(r, stream) ==
    /\ res[r].exists
    /\ sourceModified' = MarkModified(res[r], sourceModified)
    /\ res' = [res EXCEPT ![r] = SetStreamFields(@, stream)]
    /\ last' = Done("setStream", r, NULL)
    /\ settled' = <<>>
    /\ UNCHANGED <<flow, waiters, ready>>

\* lines 214-231, with a function
SetStreamFactory(r, createStream) ==
    /\ res[r].exists
    /\ sourceModified' = MarkModified(res[r], sourceModified)
    /\ res' = [res EXCEPT ![r] = SetFactoryFields(@, createStream)]
    /\ last' = Done("setStreamFactory", r, NULL)
    /\ settled' = <<>>
    /\ UNCHANGED <<flow, waiters, ready>>

\* ------------------------------------------------- project and collections
\* lines 361-363: hasProject()
HasProject(rec) == IsSet(rec.project)

\* setProject without its test: the project given replaces the one attached
SetProjectOverwrites(r, project) ==
    /\ res[r].exists
    /\ res' = [res EXCEPT ![r].project = Some(project)]
    /\ last' = Done("setProject", r, Some(project))
    /\ settled' = <<>>
    /\ UNCHANGED <<flow, sourceModified, waiters, ready>>

\* lines 347-353
SetProject(r, project) ==
    /\ res[r].exists
    /\ IF HasProject(res[r])
       THEN /\ last' = Fail("setProject", r, Some(project), "ProjectAssigned")
            /\ UNCHANGED res
       ELSE /\ res' = [res EXCEPT ![r].project = Some(project)]
            /\ last' = Done("setProject", r, Some(project))
    /\ settled' = <<>>
    /\ UNCHANGED <<flow, sourceModified, waiters, ready>>

\* lines 298-300
PushCollection(r, name) ==
    /\ res[r].exists
    /\ Len(res[r].collections) < MaxCollections
    /\ res' = [res EXCEPT ![r].collections = Append(@, name)]
    /\ last' = Done("pushCollection", r, NULL)
    /\ settled' = <<>>
    /\ UNCHANGED <<flow, sourceModified, waiters, ready>>

\* ------------------------------------------------------------------- clone
\* clone options that hand the stream of the original on to the clone
CloneOptionsStream(rec, buffer) ==
    [path |-> Some(<<47, 97>>), buffer |-> NULL, string |-> NULL,
     createStream |-> rec.createStream, stream |-> rec.stream, source |-> rec.source,
     project |-> NULL]

\* clone options that hand the project of the original on to the clone
CloneOptionsWithProject(rec, buffer) ==
    [path |-> Some(<<47, 97>>), buffer |-> buffer, string |-> NULL,
     createStream |-> IF IsSet(buffer) THEN NULL ELSE rec.createStream,
     stream |-> NULL, source |-> rec.source, project |-> rec.project]

\* lines 314-326: the options of the clone, given the buffer it takes (that of
\* the original, or the one _getBufferFromStream resolved with); they name no
\* project
CloneOptions(rec, buffer) ==
    [path |-> Some(<<47, 97>>), buffer |-> buffer, string |-> NULL,
     createStream |-> IF IsSet(buffer) THEN NULL ELSE rec.createStream,
     stream |-> NULL, source |-> rec.source, project |-> NULL]

\* lines 308-329, up to the first await: the options are complete, or they
\* wait for _getBufferFromStream
Clone(r) ==
    /\ res[r].exists
    /\ InProgress < MaxWaiters
    /\ LET rec == res[r]
       IN IF IsSet(rec.stream)
          THEN LET b == BufferFromStream(rec, flow[r])
               IN /\ res' = [res EXCEPT ![r] = b.rec]
                  /\ flow' = [flow EXCEPT ![r] = b.flow]
                  /\ waiters' = IF b.out = "pending"
                                THEN [waiters EXCEPT ![r]["clone"] = @ + 1]
                                ELSE waiters
                  /\ last' = Ret("clone", r, NULL, b.out, <<>>, -1, NULL)
                  /\ UNCHANGED ready
          ELSE /\ ready' = Append(ready,
                              [res |-> r,
                               opts |-> CloneOptions(rec, IF IsSet(rec.createStream)
                                                          THEN NULL ELSE rec.buffer)])
               /\ last' = Ret("clone", r, NULL, "pending", <<>>, -1, NULL)
               /\ UNCHANGED <<res, flow, waiters>>
    /\ settled' = <<>>
    /\ UNCHANGED sourceModified

\* What clone() resolves with: the new instance; kept is the number the
\* instance goes by when the caller keeps it
Cloned(r, c, kept) ==
    [Ret("clone", r, kept, IF c.err = "" THEN "ok" ELSE c.err, <<>>, -1, NULL)
        EXCEPT !.made = Some(c.rec)]

\* line 310: the continuation of clone() runs the constructor; the caller does
\* not use the clone any further
CloneConstruct ==
    /\ ready # <<>>
    /\ LET c == Constructor(Head(ready).opts, sourceModified)
       IN /\ sourceModified' = c.modified
          /\ last' = Cloned(Head(ready).res, c, NULL)
    /\ ready' = Tail(ready)
    /\ settled' = <<>>
    /\ UNCHANGED <<res, flow, waiters>>

\* line 310, as CloneConstruct, for a clone of instance 1 that the caller keeps:
\* it is instance 2 from here on
CloneKeep ==
    /\ ready # <<>>
    /\ Head(ready).res = 1
    /\ ~res[2].exists
    /\ LET c == Constructor(Head(ready).opts, sourceModified)
       IN /\ c.err = ""
          /\ res' = [res EXCEPT ![2] = c.rec]
          /\ sourceModified' = c.modified
          /\ last' = Cloned(1, c, Some(2))
    /\ ready' = Tail(ready)
    /\ settled' = <<>>
    /\ UNCHANGED <<flow, waiters>>

\* ------------------------------------------------------------ stream events
\* a "data" handler that puts the chunk in front of those received before it
StreamDataPrepends(r) ==
    /\ flow[r].live
    /\ NoMicrotask
    /\ flow[r].todo # <<>>
    /\ flow' = [flow EXCEPT ![r] = [@ EXCEPT !.todo = Tail(@),
                                             !.buffers = <<Head(flow[r].todo)>> \o @]]
    /\ last' = Done("data", r, NULL)
    /\ settled' = <<>>
    /\ UNCHANGED <<res, sourceModified, waiters, ready>>

\* lines 416-418
StreamData(r) ==
    /\ flow[r].live
    /\ NoMicrotask
    /\ flow[r].todo # <<>>
    /\ flow' = [flow EXCEPT ![r] = [@ EXCEPT !.todo = Tail(@),
                                             !.buffers = Append(@, Head(flow[r].todo))]]
    /\ last' = Done("data", r, NULL)
    /\ settled' = <<>>
    /\ UNCHANGED <<res, sourceModified, waiters, ready>>

Replicate(x, n) == [i \in 1..n |-> x]

\* The outcomes delivered when the promise of instance r settles: outs[op] to
\* each of the calls awaiting it
Settle(r, outs, withClones) ==
    Replicate(outs["getBuffer"], waiters[r]["getBuffer"])
        \o Replicate(outs["getString"], waiters[r]["getString"])
        \o Replicate(outs["getSize"], waiters[r]["getSize"])
        \o (IF withClones THEN Replicate(outs["clone"], waiters[r]["clone"]) ELSE <<>>)

\* lines 422-435: the stream has emitted all its chunks and ends; the promise
\* resolves and every call awaiting it continues
StreamEnd(r) ==
    /\ flow[r].live
    /\ NoMicrotask
    /\ flow[r].todo = <<>>
    /\ LET buffer == BufferConcat(flow[r].buffers)
           deliver == [op \in Ops |-> Deliver(op, r, buffer)]
       IN /\ res' = [res EXCEPT ![r] = FieldsAfterEnd(@, flow[r].buffers)]
          /\ sourceModified' = ModifiedAfterEnd(res[r], sourceModified)
          /\ settled' = Settle(r, deliver, FALSE)
          /\ ready' = Replicate([res |-> r, opts |-> CloneOptions(res[r], Some(buffer))],
                                waiters[r]["clone"])
    /\ waiters' = [waiters EXCEPT ![r] = NoWaiters]
    /\ flow' = [flow EXCEPT ![r] = NoFlow]
    /\ last' = Done("end", r, NULL)

\* a stream failure nobody listens to: the calls awaiting stay pending
StreamErrorUnheard(r) ==
    /\ flow[r].live
    /\ NoMicrotask
    /\ flow' = [flow EXCEPT ![r] = NoFlow]
    /\ last' = Done("error", r, NULL)
    /\ settled' = <<>>
    /\ UNCHANGED <<res, sourceModified, waiters, ready>>

\* lines 419-421: the stream fails; the promise is rejected
StreamError(r) ==
    /\ flow[r].live
    /\ NoMicrotask
    /\ LET reject == [op \in Ops |-> Fail(op, r, NULL, "StreamError")]
       IN /\ res' = [res EXCEPT ![r] = FieldsAfterError(@)]
          /\ settled' = Settle(r, reject, TRUE)
    /\ waiters' = [waiters EXCEPT ![r] = NoWaiters]
    /\ flow' = [flow EXCEPT ![r] = NoFlow]
    /\ last' = Done("error", r, NULL)
    /\ UNCHANGED <<sourceModified, ready>>

\* ------------------------------------------------------------ specification
\* One Resource under every call its caller may make and every event of the
\* stream it buffers; the clones it returns are constructed and not used
Next ==
    \/ \E p \in Params : Construct(p)
    \/ GetBuffer(1)
    \/ GetString(1)
    \/ GetSize(1)
    \/ GetStream(1)
    \/ \E b \in Buffers : SetBuffer(1, b)
    \/ \E s \in Strings : SetString(1, s)
    \/ \E s \in Streams : SetStream(1, s)
    \/ \E s \in Streams : SetStreamFactory(1, s)
    \/ Clone(1)
    \/ CloneConstruct
    \/ StreamData(1)
    \/ StreamEnd(1)
    \/ StreamError(1)

Spec == Init /\ [][Next]_vars

\* A Resource and a clone of it side by side, both in use, over fewer inputs:
\* a source handle is attached, the buffers and strings hold "A", and every
\* stream is the longest one
LongStream == [i \in 1..MaxChunks |-> ChunkAt(i)]

ParamsOfTwo ==
    {p \in Params : /\ p.path = Some(<<47, 97>>)
                    /\ ~ContentConflict(p)
                    /\ p.string = NULL
                    /\ p.source
                    /\ p.stream \in {NULL, Some(LongStream)}
                    /\ p.createStream \in {NULL, Some(LongStream)}}

NextOfTwo ==
    \/ \E p \in ParamsOfTwo : Construct(p)
    \/ \E r \in ResIds : GetBuffer(r)
    \/ \E r \in ResIds : GetStream(r)
    \/ \E r \in ResIds : SetBuffer(r, <<65>>)
    \/ \E r \in ResIds : SetString(r, <<65>>)
    \/ \E r \in ResIds : SetStream(r, LongStream)
    \/ \E r \in ResIds : SetStreamFactory(r, LongStream)
    \/ \E r \in ResIds : Clone(r)
    \/ CloneConstruct
    \/ CloneKeep
    \/ \E r \in ResIds : StreamData(r)
    \/ \E r \in ResIds : StreamEnd(r)
    \/ \E r \in ResIds : StreamError(r)

SpecOfTwo == Init /\ [][NextOfTwo]_vars

\* A Resource with its project and its collections and a clone of it, both in
\* use: the content is the buffer "A" or a stream of one chunk, and the caller
\* clones the Resource once
ShortStream == <<ChunkAt(1)>>

ParamsOfProject ==
    {p \in [path : {Some(<<47, 97>>)},
            buffer : {NULL, Some(<<65>>)},
            string : {NULL},
            createStream : {NULL},
            stream : {NULL, Some(ShortStream)},
            source : {TRUE},
            project : {NULL, Some("p")}] : ~ContentConflict(p)}

NextOfProject ==
    \/ \E p \in ParamsOfProject : Construct(p)
    \/ \E r \in ResIds : SetProject(r, "q")
    \/ \E r \in ResIds : PushCollection(r, "c")
    \/ \E r \in ResIds : GetBuffer(r)
    \/ \E r \in ResIds : GetStream(r)
    \/ \E r \in ResIds : SetBuffer(r, <<65>>)
    \/ \E r \in ResIds : SetString(r, <<65>>)
    \/ \E r \in ResIds : SetStream(r, ShortStream)
    \/ ~res[2].exists /\ ready = <<>> /\ waiters[1]["clone"] = 0 /\ Clone(1)
    \/ CloneKeep
    \/ \E r \in ResIds : StreamData(r)
    \/ \E r \in ResIds : StreamEnd(r)

SpecOfProject == Init /\ [][NextOfProject]_vars

\* One Resource whose streams make progress: a stream that is being buffered
\* goes on to emit its next event whenever the event loop gets to it, and a
\* continuation that is queued runs.  The streams are the longest one.
StreamEvent(r) == StreamData(r) \/ StreamEnd(r) \/ StreamError(r)

NextLive ==
    \/ \E p \in ParamsOfTwo : Construct(p)
    \/ GetBuffer(1)
    \/ GetSize(1)
    \/ SetStream(1, LongStream)
    \/ Clone(1)
    \/ CloneConstruct
    \/ StreamEvent(1)

SpecLive ==
    Init /\ [][NextLive]_vars /\ SF_vars(StreamEvent(1)) /\ WF_vars(CloneConstruct)

\* ------------------------------------------------------------------ claims
SetOps == {"setBuffer", "setString", "setStream", "setStreamFactory"}

\* The step taken is the call or event op on instance r
Step(op, r) == last'.op = op /\ last'.res = r

\* The step taken is an explicit set of the content of instance r
SetStep(r) == last'.op \in SetOps /\ last'.res = r

\* C1: once getStream() has returned a stream, getBuffer(), getString() and
\* getStream() fail with ContentDrained, and nothing but an explicit
\* setBuffer, setString or setStream ends that state.
C1_DrainedUntilSet ==
    [][\A r \in ResIds :
          /\ (res[r].contentDrained /\ ~SetStep(r)) => res'[r].contentDrained
          /\ (res[r].contentDrained /\ last'.res = r
                /\ last'.op \in {"getBuffer", "getString", "getStream"})
             => last'.out = "ContentDrained"]_vars

\* C2: while a materialization is in flight, a getBuffer(), getString(),
\* getSize() or clone() call that reaches the stream joins it instead of
\* pulling the stream or invoking the factory again, none fails with
\* StreamDrained, and when the stream ends every call that joined receives the
\* same bytes, those of the buffer installed.
C2_Dedup ==
    [][\A r \in ResIds :
          /\ (res[r].buffering = "pending" /\ last'.res = r /\ last'.op \in Ops)
             => /\ flow'[r] = flow[r]
                /\ res'[r].streamDrained = res[r].streamDrained
                /\ last'.out # "StreamDrained"
                /\ last'.out = "pending" /\ ready' = ready
                   => waiters'[r][last'.op] = waiters[r][last'.op] + 1
          /\ Step("end", r)
             => /\ Len(settled') + Len(ready') = Awaiting(r)
                /\ \A i \in 1..Len(settled') :
                      settled'[i] = Deliver(settled'[i].op, r, Val(res'[r].buffer))
                /\ \A i \in 1..Len(ready') :
                      ready'[i].res = r /\ ready'[i].opts.buffer = res'[r].buffer]_vars

C2_Witness ==
    /\ last.op = "end"
    /\ Len(settled) >= 1
    /\ Len(ready) >= 1
    /\ settled[1].op = "getBuffer"
    /\ settled[1].val = <<195, 169>>

\* C3: at most one of buffer, stream and stream factory is set in every
\* state, and each setter leaves exactly the representation it set.
Representations(rec) ==
    {k \in {"buffer", "stream", "createStream"} : IsSet(rec[k])}

C3_OneRepresentation ==
    \A r \in ResIds :
        /\ Cardinality(Representations(res[r])) <= 1
        /\ last.res = r /\ last.op \in {"setBuffer", "setString"}
           => Representations(res[r]) = {"buffer"}
        /\ last.res = r /\ last.op = "setStream"
           => Representations(res[r]) = {"stream"}
        /\ last.res = r /\ last.op = "setStreamFactory"
           => Representations(res[r]) = {"createStream"}

C3_Witness ==
    /\ last.op = "setStream"
    /\ res[1].buffering = "pending"
    /\ Representations(res[1]) = {"stream"}

\* C4: every setter leaves both drained flags false, and a getStream() call
\* made right after it returns a stream.
C4_SetResetsDrained ==
    [][\A r \in ResIds :
          /\ SetStep(r) => ~res'[r].contentDrained /\ ~res'[r].streamDrained
          /\ (last.op \in SetOps /\ last.res = r /\ Step("getStream", r))
             => last'.out = "ok" /\ IsSet(last'.strm)]_vars

C4_Witness ==
    /\ last.op = "getStream"
    /\ last.out = "ok"
    /\ res[1].buffering = "StreamError"
    /\ IsSet(res[1].stream)

\* C5: with a source handle attached, a getBuffer(), getString() or getSize()
\* call and the stream events of the materialization it starts leave
\* source.modified as it was, and a setter leaves it true.
C5_ReadKeepsModified ==
    [][/\ last'.op \in {"getBuffer", "getString", "getSize", "data", "end", "error"}
          => sourceModified' = sourceModified
       /\ \A r \in ResIds : SetStep(r) /\ res[r].source => sourceModified']_vars

C5_Witness ==
    /\ last.op = "end"
    /\ res[1].source
    /\ ~sourceModified
    /\ Len(settled) >= 1
    /\ IsSet(res[1].buffer)

\* C6: when the stream being materialized signals an error, the calls
\* awaiting it are rejected, the buffering token is reset to none and the
\* handler installs no buffer.
C6_ErrorClearsToken ==
    [][\A r \in ResIds :
          Step("error", r)
          => /\ res'[r].buffering = "none"
             /\ res'[r].buffer = res[r].buffer
             /\ \A i \in 1..Len(settled') : settled'[i].out = "StreamError"]_vars

\* C7: after a failed drain, the getBuffer() that follows an explicit set
\* resolves with the content set (or starts to drain the stream set), not with
\* the earlier failure.
C7_RestartAfterSet ==
    [][\A r \in ResIds :
          (res[r].buffering = "StreamError" /\ last.op \in SetOps /\ last.res = r
             /\ Step("getBuffer", r))
          => \/ last'.out = "ok" /\ Some(last'.val) = res[r].buffer
             \/ last'.out = "pending" /\ flow'[r].live]_vars

\* C8: when the stream signals an error, every call awaiting the
\* materialization is rejected with that error: none receives content, none
\* stays pending.
C8_ErrorRejectsAll ==
    [][\A r \in ResIds :
          Step("error", r)
          => /\ Len(settled') = Awaiting(r)
             /\ \A op \in Ops :
                   Cardinality({i \in 1..Len(settled') : settled'[i].op = op})
                       = waiters[r][op]
             /\ \A i \in 1..Len(settled') :
                   settled'[i].out = "StreamError" /\ settled'[i].val = <<>>
             /\ waiters'[r] = NoWaiters
             /\ ready' = ready]_vars

C8_Witness ==
    /\ last.op = "error"
    /\ Len(settled) >= 2
    /\ settled[1].op = "getBuffer"
    /\ settled[2].op = "clone"

\* C9: when the stream of a single-stream Resource ends, every clone() that
\* awaited it takes a buffer with the full content of the stream and the
\* original holds that buffer and is readable; the clone constructed from it
\* is buffer-backed, and its getBuffer() resolves with that content.
StreamBytes == BufferConcat(LongStream)

C9_CloneOfStream ==
    [][/\ (Step("end", 1) /\ waiters[1]["clone"] > 0)
          => /\ Len(ready') = waiters[1]["clone"]
             /\ \A i \in 1..Len(ready') :
                   /\ ready'[i].opts.buffer = Some(StreamBytes)
                   /\ ready'[i].opts.stream = NULL
                   /\ ready'[i].opts.createStream = NULL
             /\ res'[1].buffer = Some(StreamBytes)
             /\ GetBufferPath(res'[1]) = ""
       /\ (last'.op = "clone" /\ last'.arg = Some(2)
             /\ Head(ready).opts.buffer = Some(StreamBytes))
          => /\ last'.out = "ok"
             /\ Representations(res'[2]) = {"buffer"}
             /\ res'[2].buffer = Some(StreamBytes)
             /\ res'[1] = res[1]
       /\ (last.op = "clone" /\ last.arg = Some(2) /\ res[2].buffer = Some(StreamBytes)
             /\ Step("getBuffer", 2))
          => last'.out = "ok" /\ last'.val = StreamBytes]_vars

C9_Witness ==
    /\ last.op = "end"
    /\ last.res = 1
    /\ Len(ready) >= 1
    /\ ready[1].opts.buffer = Some(StreamBytes)
    /\ ~res[2].exists
    /\ GetBufferPath(res[1]) = ""

\* C10: the constructor fails without a path, fails with two or more content
\* parameters and with none, and succeeds with a path and exactly one
\* content parameter.
ContentKeys == {"buffer", "string", "createStream", "stream"}

C11_GetBufferEqualsContent ==
    [][/\ (/\ last.op = "new" /\ last.out = "ok"
           /\ Cardinality({k \in ContentKeys : IsSet(last.arg[k])}) = 1
           /\ Step("getBuffer", 1))
          => LET p == last.arg
                 supplied == IF IsSet(p.stream) THEN p.stream ELSE p.createStream
             IN /\ IsSet(p.buffer) => last'.out = "ok" /\ last'.val = Val(p.buffer)
                /\ IsSet(p.string)
                   => last'.out = "ok" /\ last'.val = Utf8Encode(Val(p.string))
                /\ IsSet(supplied)
                   => /\ last'.out = "pending"
                      /\ waiters'[1]["getBuffer"] = 1
                      /\ flow'[1] = [live |-> TRUE, todo |-> Val(supplied),
                                     buffers |-> <<>>]
       /\ \A r \in ResIds :
             /\ Step("data", r)
                => /\ flow'[r].live
                   /\ Len(flow'[r].buffers) = Len(flow[r].buffers) + 1
                   /\ flow'[r].buffers \o flow'[r].todo = flow[r].buffers \o flow[r].todo
             /\ (flow[r].live /\ ~(last'.res = r /\ last'.op \in {"data", "end", "error"}))
                => flow'[r] = flow[r]
             /\ Step("end", r)
                => /\ flow[r].todo = <<>>
                   /\ \A i \in 1..Len(settled') :
                         settled'[i].op = "getBuffer"
                         => /\ settled'[i].out = "ok"
                            /\ settled'[i].val = BufferConcat(flow[r].buffers)]_vars

C11_Witness ==
    /\ last.op = "end"
    /\ settled = <<Deliver("getBuffer", 1, <<195, 169>>)>>
    /\ ready = <<>>
    /\ res[1].buffer = Some(<<195, 169>>)

\* C12: setProject fails when a project is attached, whether the constructor
\* or an earlier setProject attached it, and leaves that project in place; it
\* succeeds when none is attached; hasProject() is true from the first
\* assignment that succeeded on, and the project attached never changes.
C12_ProjectOnce ==
    [][\A r \in ResIds :
          /\ Step("setProject", r)
             => IF HasProject(res[r])
                THEN last'.out = "ProjectAssigned" /\ res'[r] = res[r]
                ELSE last'.out = "ok" /\ res'[r].project = last'.arg
          /\ HasProject(res'[r])
             <=> \/ HasProject(res[r])
                 \/ Step("setProject", r) /\ last'.out = "ok"
                 \/ /\ ~res[r].exists /\ res'[r].exists
                    /\ IsSet(IF last'.op = "new" THEN last'.arg.project
                             ELSE Head(ready).opts.project)
          /\ HasProject(res[r]) => res'[r].project = res[r].project]_vars

C12_Witness ==
    /\ last.op = "setProject"
    /\ last.res = 1
    /\ last.arg = Some("q")
    /\ last.out = "ProjectAssigned"
    /\ res[1].project = Some("p")
    /\ res[2].project = Some("q")

\* C13: getSize() returns 0 and changes nothing when neither buffer, stream
\* nor stream factory is set; in every state where one is set it returns the
\* byte length of the buffer, or awaits the materialization of the stream and
\* resolves with the byte length of the buffer installed.
C13_SizeOfContent ==
    [][/\ (Step("getSize", 1) /\ HasNoContent(res[1]))
          => /\ last'.out = "ok" /\ last'.size = 0
             /\ res' = res /\ flow' = flow /\ waiters' = waiters
       /\ (Step("getSize", 1) /\ ~HasNoContent(res[1]))
          => \/ /\ last'.out = "ok"
                /\ IsSet(res[1].buffer)
                /\ last'.size = Len(Val(res[1].buffer))
             \/ /\ last'.out = "pending"
                /\ res'[1].buffering = "pending"
       /\ Step("end", 1)
          => \A i \in 1..Len(settled') :
                settled'[i].op = "getSize"
                => /\ settled'[i].out = "ok"
                   /\ settled'[i].size = Len(Val(res'[1].buffer))]_vars

\* C14: a clone starts without a project, with no collections and not
\* content-drained, whatever the original has, and its construction leaves
\* the original as it was; afterwards no setBuffer, setString, setStream,
\* getStream, getBuffer, pushCollection or setProject call on one of the two,
\* and no event of a stream one of them buffers, changes a field of the other.
CallsOfClaim14 ==
    SetOps \cup {"getStream", "getBuffer", "pushCollection", "setProject", "data", "end"}

C14_CloneIndependent ==
    [][/\ (last'.op = "clone" /\ last'.arg = Some(2))
          => /\ res'[2].exists
             /\ ~HasProject(res'[2])
             /\ res'[2].collections = <<>>
             /\ ~res'[2].contentDrained
             /\ res'[1] = res[1]
             /\ flow' = flow
       /\ \A r \in ResIds : \A o \in ResIds \ {r} :
             (last'.res = r /\ last'.op \in CallsOfClaim14)
             => /\ res'[o] = res[o]
                /\ flow'[o] = flow[o]
                /\ waiters'[o] = waiters[o]]_vars

C14_Witness ==
    /\ last.op = "setStream"
    /\ last.res = 2
    /\ res[1].project = Some("p")
    /\ res[1].collections = <<"c">>
    /\ res[1].contentDrained
    /\ IsSet(res[1].buffer)
    /\ ~HasProject(res[2])
    /\ res[2].collections = <<>>
    /\ IsSet(res[2].stream)

\* C15: when the stream being buffered goes on to signal its end or an error,
\* every getBuffer(), getString(), getSize() and clone() call awaiting it is
\* settled in the end and the buffering token returns to none; until the
\* stream signals, the token stays pending and no awaiting call is settled.
C15_MaterializationSettles ==
    /\ \A op \in Ops : (waiters[1][op] > 0) ~> (waiters[1][op] = 0)
    /\ (res[1].buffering = "pending") ~> (res[1].buffering = "none")
    /\ [][(res[1].buffering = "pending" /\ last'.op \notin {"end", "error"})
             => /\ res'[1].buffering = "pending"
                /\ \A op \in Ops : waiters'[1][op] >= waiters[1][op]]_vars

\* C16: no getBuffer(), getString(), getStream(), getSize() or clone() call
\* fails with StreamDrained: a call that fails because the stream was pulled
\* from before fails with ContentDrained.
C16_NoStreamDrained ==
    /\ last.op \in Ops \cup {"getStream"} => last.out # "StreamDrained"
    /\ \A i \in 1..Len(settled) : settled[i].out # "StreamDrained"

\* C17: while a stream factory is the content source the stream-drained flag
\* is false and _getStream returns a stream of the factory without setting
\* it; the flag is true only while a single stream is the content source.
C17_FactoryNeverDrained ==
    \A r \in ResIds :
        /\ IsSet(res[r].createStream)
           => /\ ~res[r].streamDrained
              /\ GetStreamInternal(res[r])
                     = [err |-> "", rec |-> res[r], strm |-> res[r].createStream]
        /\ res[r].streamDrained => IsSet(res[r].stream)

C17_Witness ==
    /\ IsSet(res[1].createStream)
    /\ res[1].buffering = "pending"
    /\ res[1].contentDrained
    /\ flow[1].buffers # <<>>
    /\ last.op = "getStream"
    /\ last.out = "ok"

\* C18: after a setBuffer, setString or setStream made while a materialization
\* is pending, the end event of the old stream leaves the content set in
\* place, and a getBuffer() returns the buffer set or starts to buffer the
\* stream set.
C18_LastWriteWins ==
    [][\A r \in ResIds :
          (last.op \in SetOps /\ last.res = r /\ res[r].buffering = "pending")
          => /\ Step("end", r)
                => /\ res'[r].buffer = res[r].buffer
                   /\ res'[r].stream = res[r].stream
                   /\ res'[r].createStream = res[r].createStream
             /\ Step("getBuffer", r)
                => \/ last'.out = "ok" /\ Some(last'.val) = res[r].buffer
                   \/ /\ last'.out = "pending"
                      /\ flow'[r].live
                      /\ flow'[r].buffers = <<>>
                      /\ Some(flow'[r].todo) \in {res[r].stream, res[r].createStream}]_vars

\* C19: with a source handle attached, no step of clone(), the construction
\* of the clone included, changes source.modified.
C19_CloneKeepsModified ==
    [][(last'.op = "clone" /\ res[last'.res].source)
          => sourceModified' = sourceModified]_vars

\* C20: a getBuffer(), getString(), getStream(), getSize() or clone() call
\* that fails with NoContent, ContentDrained or StreamDrained leaves the
\* content source, the drained flags and the buffering token as they were.
C20_FailureKeepsState ==
    [][\A r \in ResIds :
          (/\ last'.res = r
           /\ last'.op \in Ops \cup {"getStream"}
           /\ last'.out \in {"NoContent", "ContentDrained", "StreamDrained"})
          => /\ res'[r].buffer = res[r].buffer
             /\ res'[r].stream = res[r].stream
             /\ res'[r].createStream = res[r].createStream
             /\ res'[r].contentDrained = res[r].contentDrained
             /\ res'[r].streamDrained = res[r].streamDrained
             /\ res'[r].buffering = res[r].buffering]_vars

====
